---- MODULE Spec2Model ----
(***************************************************************************)
(* The construct-similarity comparison of the personality notebook         *)
(* (src/unnamed/part_000): item embeddings are averaged per construct,     *)
(* compared by cosine similarity, aligned with the pivoted table of        *)
(* observed correlations, flattened and correlated.                        *)
(*                                                                         *)
(* Conventions of the model.                                               *)
(*  - A construct label is a natural number: its rank in the lexicographic *)
(*    order of the label strings, which is the only thing pandas uses of   *)
(*    a label (equality and sort order).                                   *)
(*  - A number is an exact fraction <<num, den>> in lowest terms with      *)
(*    den > 0; NaN is <<0, 0>>.                                            *)
(*  - A cosine similarity c is held as sign(c) * c^2, which is rational    *)
(*    for rational vectors and is a strictly increasing function of c, so  *)
(*    equality, order, sign and zero of similarities are those of c.       *)
(*  - Positions are 1-based; the code's position k is k+1 here.            *)
(***************************************************************************)
EXTENDS Integers, Sequences, FiniteSets, TLC

\* ------------------------------------------------------------------ bounds
NumLabels == 3
MaxItems == 3
MaxTriples == 2
MaxN == 3
\* the items and the reference rows of the kernel whose cells run in any order
MaxCellItems == 2
MaxCellTriples == 1
\* the items handed to the batched feature extraction
MaxMapItems == 9
\* the health states of the regression of exercise 1
MaxHealthItems == 4
\* the samples of the train split handed to the Trainer
MaxTrainSize == 17
\* batch_size = 8; num_train_epochs=10
TrainBatchSize == 8
NumTrainEpochs == 10
\* the prompts of exercise 3, their characters, and the characters the model adds
MaxPrompts == 2
MaxPromptLen == 2
MaxNewChars == 4
\* dat.map(extract_features, batched=True, batch_size=8)
BatchSize == 8

Labels == 1..NumLabels
\* the embeddings the model may return for an item: opposite, orthogonal and
\* oblique directions, so that means can cancel to the zero vector and
\* similarities can be negative, zero, fractional and one
Embeddings == {<<1, 0>>, <<-1, 0>>, <<0, 1>>, <<1, 1>>}

\* observed correlations of the reference table, in hundredths
CorrVals == {-50, 25}
\* entries of the matrices handed to lower_triangle_flat on its own
FlatVals == {<<0, 1>>, <<1, 1>>}
\* the embeddings of the items of the kernel whose cells run in any order
CellEmbeddings == {<<1, 0>>, <<1, 1>>}

\* ------------------------------------------------------------------ numbers
NaN == <<0, 0>>

IsNaN(v) == v[2] = 0

Abs(n) == IF n < 0 THEN -n ELSE n

Sgn(n) == IF n < 0 THEN -1 ELSE IF n = 0 THEN 0 ELSE 1

RECURSIVE Gcd(_, _)
Gcd(a, b) == IF b = 0 THEN a ELSE Gcd(b, a % b)

\* the quotient n/d (d >= 0) in lowest terms; a division by zero gives NaN
Frac(n, d) == IF d = 0 THEN NaN ELSE LET g == Gcd(Abs(n), d) IN <<n \div g, d \div g>>

Num(n) == <<n, 1>>

\* ------------------------------------------------------------------ sequences
RECURSIVE SumSeq(_)
SumSeq(s) == IF s = <<>> THEN 0 ELSE Head(s) + SumSeq(Tail(s))

RECURSIVE ProdSeq(_)
ProdSeq(s) == IF s = <<>> THEN 1 ELSE Head(s) * ProdSeq(Tail(s))

Range(s) == {s[k] : k \in DOMAIN s}

SetMin(S) == CHOOSE m \in S : \A x \in S : m <= x

\* the position of label l in the index ix, 0 when absent (Index.get_indexer's -1)
PosOf(ix, l) == IF l \in Range(ix) THEN CHOOSE k \in DOMAIN ix : ix[k] = l ELSE 0

SeqsUpTo(S, lo, hi) == UNION {[1..n -> S] : n \in lo..hi}

\* ------------------------------------------------------------------ data frames
Undef == [kind |-> "undef"]

\* a DataFrame: row labels, column labels and the values by position
Frame(ix, cols, vals) == [kind |-> "frame", index |-> ix, columns |-> cols, values |-> vals]

\* a Series with the default RangeIndex
Series(vals) == [kind |-> "series", values |-> vals]

\* the rows of a csv file read by pd.read_csv
Long(rows) == [kind |-> "long", rows |-> rows]

\* the sorted distinct values of a set of labels
RECURSIVE SortedSeq(_)
SortedSeq(S) == IF S = {} THEN <<>> ELSE LET m == SetMin(S) IN <<m>> \o SortedSeq(S \ {m})

\* the sorted distinct values of a column (the keys of a groupby, the levels of a pivot)
UniqueSorted(col) == SortedSeq(Range(col))

\* ------------------------------------------------------------------ groupby('construct').mean
\* sum of column c over the rows of group l, in row order
RECURSIVE GroupSum(_, _, _, _)
GroupSum(rows, constructs, l, c) ==
    IF rows = <<>> THEN 0
    ELSE (IF Head(constructs) = l THEN Head(rows)[c] ELSE 0)
         + GroupSum(Tail(rows), Tail(constructs), l, c)

\* the number of all rows, taken where the size of the group is meant
GroupCount_AllRows(constructs, l) == Len(constructs)

RECURSIVE GroupCount(_, _)
GroupCount(constructs, l) ==
    IF constructs = <<>> THEN 0
    ELSE (IF Head(constructs) = l THEN 1 ELSE 0) + GroupCount(Tail(constructs), l)

GroupMean(rows, constructs, l) ==
    [c \in DOMAIN Head(rows) |-> Frac(GroupSum(rows, constructs, l, c), GroupCount(constructs, l))]

\* a mean per row of the table, the key column taken as it stands
GroupbyMean_PerRow(rows, constructs) ==
    Frame(constructs, [c \in DOMAIN Head(rows) |-> c],
          [i \in DOMAIN constructs |-> GroupMean(rows, constructs, constructs[i])])

\* embeds.groupby('construct').mean(numeric_only=True): one row per key, keys sorted
GroupbyMean(rows, constructs) ==
    LET keys == UniqueSorted(constructs)
    IN Frame(keys, [c \in DOMAIN Head(rows) |-> c],
             [i \in DOMAIN keys |-> GroupMean(rows, constructs, keys[i])])

\* ------------------------------------------------------------------ cosine_similarity
\* a vector of fractions scaled by the product of its denominators: an integer
\* vector of the same direction
ScaleInt(u) ==
    LET D == ProdSeq([c \in DOMAIN u |-> u[c][2]])
    IN [c \in DOMAIN u |-> u[c][1] * (D \div u[c][2])]

Dot(U, V) == SumSeq([c \in DOMAIN U |-> U[c] * V[c]])

\* the squared norm as it is, a zero left in place
NormSq_Raw(U) == Dot(U, U)

\* sklearn's normalize divides a row by its norm, and a zero norm is replaced by 1
\* (_handle_zeros_in_scale): a zero row stays zero
NormSqOrOne(U) == IF Dot(U, U) = 0 THEN 1 ELSE Dot(U, U)

\* the dot product divided by the squared norm of the first row alone
Cosine_FirstNorm(u, v) ==
    LET U == ScaleInt(u)
        V == ScaleInt(v)
        d == Dot(U, V)
    IN Frac(Sgn(d) * d * d, NormSqOrOne(U) * NormSqOrOne(U))

\* the dot product of the two normalized rows, as sign(c) * c^2
Cosine(u, v) ==
    LET U == ScaleInt(u)
        V == ScaleInt(v)
        d == Dot(U, V)
    IN Frac(Sgn(d) * d * d, NormSqOrOne(U) * NormSqOrOne(V))

cosine_similarity(X) == [i \in DOMAIN X |-> [j \in DOMAIN X |-> Cosine(X[i], X[j])]]

\* ------------------------------------------------------------------ pivot
\* a repeated entry counted only when its two values differ
HasDuplicateEntries_Conflicting(rows) ==
    \E a, b \in DOMAIN rows :
        /\ a < b
        /\ rows[a].construct_1 = rows[b].construct_1
        /\ rows[a].construct_2 = rows[b].construct_2
        /\ rows[a].correlation /= rows[b].correlation

\* DataFrame.pivot sets the (construct_1, construct_2) pairs as the index and
\* unstacks; an index entry that occurs twice cannot be reshaped
HasDuplicateEntries(rows) ==
    \E a, b \in DOMAIN rows :
        /\ a < b
        /\ rows[a].construct_1 = rows[b].construct_1
        /\ rows[a].construct_2 = rows[b].construct_2

\* the cell (r, c) of the pivoted table: the correlation of the row that has
\* construct_1 = r and construct_2 = c, NaN when there is none
PivotCell(rows, r, c) ==
    IF \E k \in DOMAIN rows : rows[k].construct_1 = r /\ rows[k].construct_2 = c
    THEN Num(rows[CHOOSE k \in DOMAIN rows :
                      rows[k].construct_1 = r /\ rows[k].construct_2 = c].correlation)
    ELSE NaN

\* a pivot onto one label set for both axes: a square matrix
pivot_square(rows) ==
    LET ix == UniqueSorted([k \in DOMAIN rows |-> rows[k].construct_1]
                           \o [k \in DOMAIN rows |-> rows[k].construct_2])
    IN Frame(ix, ix,
             [i \in DOMAIN ix |-> [j \in DOMAIN ix |-> PivotCell(rows, ix[i], ix[j])]])

\* observed.pivot(index='construct_1', columns='construct_2', values='correlation')
pivot(rows) ==
    LET ix == UniqueSorted([k \in DOMAIN rows |-> rows[k].construct_1])
        cols == UniqueSorted([k \in DOMAIN rows |-> rows[k].construct_2])
    IN Frame(ix, cols,
             [i \in DOMAIN ix |-> [j \in DOMAIN cols |-> PivotCell(rows, ix[i], cols[j])]])

\* ------------------------------------------------------------------ align
\* the inner join, taken where the outer join is meant
RECURSIVE JoinInner(_, _)
JoinInner(a, b) ==
    IF a = <<>> \/ b = <<>> THEN <<>>
    ELSE IF Head(a) = Head(b) THEN <<Head(a)>> \o JoinInner(Tail(a), Tail(b))
    ELSE IF Head(a) < Head(b) THEN JoinInner(Tail(a), b)
    ELSE JoinInner(a, Tail(b))

\* Index.join(how='outer') of two sorted indexes without repeats: their merge
RECURSIVE JoinOuter(_, _)
JoinOuter(a, b) ==
    IF a = <<>> THEN b
    ELSE IF b = <<>> THEN a
    ELSE IF Head(a) = Head(b) THEN <<Head(a)>> \o JoinOuter(Tail(a), Tail(b))
    ELSE IF Head(a) < Head(b) THEN <<Head(a)>> \o JoinOuter(Tail(a), b)
    ELSE <<Head(b)>> \o JoinOuter(a, Tail(b))

\* a join that appends the second axis to the first
JoinAxis_Concat(a, b) == a \o b

\* the axis both frames are reindexed to; equal axes are left as they are
JoinAxis(a, b) == IF a = b THEN a ELSE JoinOuter(a, b)

\* DataFrame.reindex: the cells of labels the frame has, NaN for the others
Reindex(df, ix, cols) ==
    Frame(ix, cols,
          [i \in DOMAIN ix |-> [j \in DOMAIN cols |->
              IF PosOf(df.index, ix[i]) /= 0 /\ PosOf(df.columns, cols[j]) /= 0
              THEN df.values[PosOf(df.index, ix[i])][PosOf(df.columns, cols[j])]
              ELSE NaN]])

\* an align of the rows alone (axis=0): each frame keeps its own columns
align_axis0(left, right) ==
    LET ix == JoinAxis(left.index, right.index)
    IN <<Reindex(left, ix, left.columns), Reindex(right, ix, right.columns)>>

\* left.align(right) with the defaults join='outer', axis=None: both axes of both frames
align(left, right) ==
    LET ix == JoinAxis(left.index, right.index)
        cols == JoinAxis(left.columns, right.columns)
    IN <<Reindex(left, ix, cols), Reindex(right, ix, cols)>>

\* ------------------------------------------------------------------ lower_triangle_flat
\* np.triu_indices(n, k=1): the positions (i, j), i < j, row by row
\* (TriuFrom(i, j, n): those from (i, j) on)
RECURSIVE TriuFrom(_, _, _)
TriuFrom(i, j, n) ==
    IF i >= n THEN <<>>
    ELSE IF j > n THEN TriuFrom(i + 1, i + 2, n)
    ELSE <<<<i, j>>>> \o TriuFrom(i, j + 1, n)

\* the triangle with its diagonal (k=0)
triu_indices_k0(n) ==
    LET RECURSIVE From(_, _)
        From(i, j) == IF i > n THEN <<>>
                      ELSE IF j > n THEN From(i + 1, i + 1)
                      ELSE <<<<i, j>>>> \o From(i, j + 1)
    IN From(1, 1)

triu_indices(n) == TriuFrom(1, 2, n)

\* len(df): the number of rows of a frame, of elements of a series
LenOf(df) == Len(df.values)

\* a flatten that insists on a square matrix
FlatRaises_NotSquare(df) ==
    \/ df.kind = "series"
    \/ df.kind = "frame" /\ Len(df.columns) /= LenOf(df)

\* df.values[rows, cols] raises IndexError for a position outside the array, and
\* for any two-dimensional indexing of the one-dimensional values of a Series
FlatRaises(df) ==
    \/ df.kind = "series"
    \/ /\ df.kind = "frame"
       /\ \E k \in DOMAIN triu_indices(LenOf(df)) :
             triu_indices(LenOf(df))[k][2] > Len(df.columns)

\* the flattening of the triangle below the diagonal: the cells (j, i), i < j
lower_triangle_flat_tril(df) ==
    LET idx == triu_indices(LenOf(df))
    IN Series([k \in DOMAIN idx |-> df.values[idx[k][2]][idx[k][1]]])

lower_triangle_flat(df) ==
    LET idx == triu_indices(LenOf(df))
    IN Series([k \in DOMAIN idx |-> df.values[idx[k][1]][idx[k][2]]])

\* ------------------------------------------------------------------ Series.corr
\* a corr that keeps the positions with a missing value
Valid_All(a, b) == DOMAIN a \cap DOMAIN b

\* the positions both series have (corr joins them on the RangeIndex, inner) and
\* where both hold a value (nancorr drops the others)
Valid(a, b) == {k \in DOMAIN a \cap DOMAIN b : ~IsNaN(a[k]) /\ ~IsNaN(b[k])}

ConstantOn(a, K) == \A k, m \in K : a[k] = a[m]

AbsVal(v) == <<Abs(v[1]), v[2]>>

\* Series.abs()
SeriesAbs(a) == [k \in DOMAIN a |-> AbsVal(a[k])]

\* a corr that wants two complete pairs before it returns a numpy value
CorrOutcomes_MinTwo(a, b) ==
    LET K == Valid(a, b)
    IN IF Cardinality(K) <= 1 THEN {"AttributeError"}
       ELSE IF ConstantOn(a, K) \/ ConstantOn(b, K) THEN {"nan", "number"}
       ELSE {"number"}

\* what a.corr(b).round(2) can do. With no complete pair corr returns the Python
\* float np.nan, which has no round method: AttributeError. With one pair
\* np.corrcoef yields a numpy nan. With a constant series the variance is zero up
\* to the rounding of the mean, so the quotient is nan or a number. Otherwise a
\* number.
CorrOutcomes(a, b) ==
    LET K == Valid(a, b)
    IN IF Cardinality(K) = 0 THEN {"AttributeError"}
       ELSE IF Cardinality(K) = 1 THEN {"nan"}
       ELSE IF ConstantOn(a, K) \/ ConstantOn(b, K) THEN {"nan", "number"}
       ELSE {"number"}

\* ------------------------------------------------------------------ state
VARIABLES
    crt,               \* the names of the kernel of the cognitive reflection notebook (exercise 3)
    health,            \* the names of the kernel of the health notebook (exercise 1)
    neo_items,         \* the construct column of NEO_items.csv, in row order
    texts,             \* its text column: the text of each item, by a text identifier
    dat,               \* dat['hidden_state']: one embedding per item, in row order
    embeds,            \* the embeddings table, with its construct column once added
    construct_embeds,  \* the mean embedding of each construct
    predicted,         \* similarity matrix, then aligned, then flattened
    observed,          \* csv rows, then pivoted, then aligned, then flattened
    csv,               \* the rows of NEO_correlations.csv as last read
    out,               \* the lines printed so far
    err,               \* the exception that stopped the run, "none" otherwise
    pc                 \* the next cell of the run

\* a notebook that is not running
NotStarted == [pc |-> "off"]

vars == <<crt, health, neo_items, texts, dat, embeds, construct_embeds, predicted, observed, csv, out, err, pc>>

Triples == [construct_1 : Labels, construct_2 : Labels, correlation : CorrVals]

\* the kernel after the feature-extraction cells: the items are loaded and embedded
Init ==
    /\ crt = NotStarted
    /\ health = NotStarted
    /\ neo_items \in SeqsUpTo(Labels, 1, MaxItems)
    /\ texts = [k \in DOMAIN neo_items |-> k]   \* every item has a text of its own
    /\ dat \in [DOMAIN neo_items -> Embeddings]
    /\ embeds = Undef
    /\ construct_embeds = Undef
    /\ predicted = Undef
    /\ observed = Undef
    /\ csv = <<>>
    /\ out = <<>>
    /\ err = "none"
    /\ pc = "embeds"

\* embeds = pd.DataFrame(dat['hidden_state'])
CellEmbeds ==
    /\ pc = "embeds"
    /\ embeds' = [kind |-> "embeds", rows |-> dat, construct |-> <<>>]
    /\ pc' = "groupby"
    /\ UNCHANGED <<crt, health, neo_items, texts, dat, construct_embeds, predicted, observed, csv, out, err>>

\* embeds['construct'] = neo_items['construct'] (both on the default RangeIndex);
\* construct_embeds = embeds.groupby('construct').mean(numeric_only=True)
CellGroupby ==
    /\ pc = "groupby"
    /\ embeds' = [embeds EXCEPT !.construct = neo_items]
    /\ construct_embeds' = GroupbyMean(embeds'.rows, embeds'.construct)
    /\ pc' = "cosine"
    /\ UNCHANGED <<crt, health, neo_items, texts, dat, predicted, observed, csv, out, err>>

\* predicted = pd.DataFrame(cosine_similarity(construct_embeds),
\*                          index=construct_embeds.index, columns=construct_embeds.index)
CellCosine ==
    /\ pc = "cosine"
    /\ predicted' = Frame(construct_embeds.index, construct_embeds.index,
                          cosine_similarity(construct_embeds.values))
    /\ pc' = "read_csv"
    /\ UNCHANGED <<crt, health, neo_items, texts, dat, embeds, construct_embeds, observed, csv, out, err>>

\* observed = pd.read_csv('NEO_correlations.csv')
CellReadCsv ==
    /\ pc = "read_csv"
    /\ \E rows \in SeqsUpTo(Triples, 1, MaxTriples) :
          /\ csv' = rows
          /\ observed' = Long(rows)
    /\ pc' = "pivot"
    /\ UNCHANGED <<crt, health, neo_items, texts, dat, embeds, construct_embeds, predicted, out, err>>

\* observed = observed.pivot(index='construct_1', columns='construct_2', values='correlation')
CellPivot ==
    /\ pc = "pivot"
    /\ IF HasDuplicateEntries(observed.rows)
       THEN /\ err' = "ValueError"
            /\ pc' = "stopped"
            /\ UNCHANGED observed
       ELSE /\ observed' = pivot(observed.rows)
            /\ pc' = "align"
            /\ UNCHANGED err
    /\ UNCHANGED <<crt, health, neo_items, texts, dat, embeds, construct_embeds, predicted, csv, out>>

\* predicted, observed = predicted.align(observed), then the two column lists are printed
CellAlign ==
    /\ pc = "align"
    /\ \E aligned \in {align(predicted, observed)} :
          /\ predicted' = aligned[1]
          /\ observed' = aligned[2]
    /\ out' = out \o <<[tag |-> "columns", labels |-> predicted'.columns],
                       [tag |-> "columns", labels |-> observed'.columns]>>
    /\ pc' = "flatten"
    /\ UNCHANGED <<crt, health, neo_items, texts, dat, embeds, construct_embeds, csv, err>>

\* predicted, observed = lower_triangle_flat(predicted), lower_triangle_flat(observed),
\* then the correlation and the correlation of the absolute values are printed
CellFlatten ==
    /\ pc = "flatten"
    /\ IF FlatRaises(predicted) \/ FlatRaises(observed)
       THEN /\ err' = "IndexError"
            /\ pc' = "stopped"
            /\ UNCHANGED <<predicted, observed, out>>
       ELSE /\ predicted' = lower_triangle_flat(predicted)
            /\ observed' = lower_triangle_flat(observed)
            /\ \E r \in CorrOutcomes(predicted'.values, observed'.values),
                  ra \in CorrOutcomes(SeriesAbs(predicted'.values), SeriesAbs(observed'.values)) :
                  IF r = "AttributeError"
                  THEN /\ err' = "AttributeError"
                       /\ pc' = "stopped"
                       /\ UNCHANGED out
                  ELSE /\ out' = out \o <<[tag |-> "r", r |-> r], [tag |-> "r_abs", r |-> ra]>>
                       /\ pc' = "done"
                       /\ UNCHANGED err
    /\ UNCHANGED <<crt, health, neo_items, texts, dat, embeds, construct_embeds, csv>>

Next ==
    \/ CellEmbeds
    \/ CellGroupby
    \/ CellCosine
    \/ CellReadCsv
    \/ CellPivot
    \/ CellAlign
    \/ CellFlatten

Spec == Init /\ [][Next]_vars

\* ------------------------------------------------------------------ the aggregation cells alone
NextAgg ==
    \/ CellEmbeds
    \/ CellGroupby
    \/ CellCosine

SpecAgg == Init /\ [][NextAgg]_vars

\* ------------------------------------------------------------------ lower_triangle_flat alone
\* every frame of at most MaxN rows and MaxN columns, labelled 1, 2, ...
InitFlat ==
    /\ crt = NotStarted
    /\ health = NotStarted
    /\ \E n \in 0..MaxN, m \in 0..MaxN :
          \E v \in [1..n -> [1..m -> FlatVals]] :
             predicted = Frame([i \in 1..n |-> i], [j \in 1..m |-> j], v)
    /\ neo_items = <<>>
    /\ texts = <<>>
    /\ dat = <<>>
    /\ embeds = Undef
    /\ construct_embeds = Undef
    /\ observed = Undef
    /\ csv = <<>>
    /\ out = <<>>
    /\ err = "none"
    /\ pc = "flat"

\* predicted = lower_triangle_flat(predicted)
FlatApply ==
    /\ pc = "flat"
    /\ IF FlatRaises(predicted)
       THEN /\ err' = "IndexError"
            /\ pc' = "stopped"
            /\ UNCHANGED predicted
       ELSE /\ predicted' = lower_triangle_flat(predicted)
            /\ pc' = "done"
            /\ UNCHANGED err
    /\ UNCHANGED <<crt, health, neo_items, texts, dat, embeds, construct_embeds, observed, csv, out>>

SpecFlat == InitFlat /\ [][FlatApply]_vars

\* ------------------------------------------------------------------ the cells in any order
\* A notebook kernel runs whichever cell the user executes next, any number of
\* times. pc stays "cells"; err is the exception of the cell just executed ("none"
\* when it completed) and out the lines that cell printed. A cell that raises
\* leaves every name bound as it was before the statement that raised.

\* a DataFrame whose labels mix construct names with row numbers, column names or
\* NaN (an align or a pivot of tables that were not made for each other); its
\* contents are not followed.
Mixed == [kind |-> "mixed"]

\* a Series of such contents
MixedSeries == [kind |-> "mixed_series"]

\* x is a Series
IsSeries(x) == x.kind \in {"series", "mixed_series"}

Defined(x) == x.kind /= "undef"

\* x is a DataFrame
IsTable(x) == x.kind \in {"long", "frame", "mixed"}

\* reindexing a Series on a longer RangeIndex: the new positions hold NaN
PadTo(vals, n) == [k \in 1..n |-> IF k <= Len(vals) THEN vals[k] ELSE NaN]

Max(a, b) == IF a >= b THEN a ELSE b

InitCells ==
    /\ crt = NotStarted
    /\ health = NotStarted
    /\ neo_items \in SeqsUpTo(Labels, 1, MaxCellItems)
    /\ texts = [k \in DOMAIN neo_items |-> k]
    /\ dat \in [DOMAIN neo_items -> CellEmbeddings]
    /\ embeds = Undef
    /\ construct_embeds = Undef
    /\ predicted = Undef
    /\ observed = Undef
    /\ csv = <<>>
    /\ out = <<>>
    /\ err = "none"
    /\ pc = "cells"

\* embeds = pd.DataFrame(dat['hidden_state'])
RunEmbeds ==
    /\ pc = "cells"
    /\ embeds' = [kind |-> "embeds", rows |-> dat, construct |-> <<>>]
    /\ err' = "none"
    /\ out' = <<>>
    /\ UNCHANGED <<crt, health, neo_items, texts, dat, construct_embeds, predicted, observed, csv, pc>>

\* embeds['construct'] = neo_items['construct'];
\* construct_embeds = embeds.groupby('construct').mean(numeric_only=True)
RunGroupby ==
    /\ pc = "cells"
    /\ IF ~Defined(embeds)
       THEN /\ err' = "NameError"
            /\ UNCHANGED <<embeds, construct_embeds>>
       ELSE /\ embeds' = [embeds EXCEPT !.construct = neo_items]
            /\ construct_embeds' = GroupbyMean(embeds'.rows, embeds'.construct)
            /\ err' = "none"
    /\ out' = <<>>
    /\ UNCHANGED <<crt, health, neo_items, texts, dat, predicted, observed, csv, pc>>

\* predicted = pd.DataFrame(cosine_similarity(construct_embeds), ...)
RunCosine ==
    /\ pc = "cells"
    /\ IF ~Defined(construct_embeds)
       THEN /\ err' = "NameError"
            /\ UNCHANGED predicted
       ELSE /\ predicted' = Frame(construct_embeds.index, construct_embeds.index,
                                  cosine_similarity(construct_embeds.values))
            /\ err' = "none"
    /\ out' = <<>>
    /\ UNCHANGED <<crt, health, neo_items, texts, dat, embeds, construct_embeds, observed, csv, pc>>

\* observed = pd.read_csv('NEO_correlations.csv'); the file is the same at every read
RunReadCsv ==
    /\ pc = "cells"
    /\ \E rows \in SeqsUpTo(Triples, 1, MaxCellTriples) :
          /\ csv = <<>> \/ rows = csv
          /\ csv' = rows
          /\ observed' = Long(rows)
    /\ err' = "none"
    /\ out' = <<>>
    /\ UNCHANGED <<crt, health, neo_items, texts, dat, embeds, construct_embeds, predicted, pc>>

\* observed = observed.pivot(index='construct_1', columns='construct_2', values='correlation'):
\* a pivoted or aligned frame has no such columns (KeyError), a Series no pivot
\* method (AttributeError)
RunPivot ==
    /\ pc = "cells"
    /\ \/ /\ ~Defined(observed)
          /\ err' = "NameError"
          /\ UNCHANGED observed
       \/ /\ observed.kind = "long"
          /\ IF HasDuplicateEntries(observed.rows)
             THEN /\ err' = "ValueError"
                  /\ UNCHANGED observed
             ELSE /\ observed' = pivot(observed.rows)
                  /\ err' = "none"
       \/ /\ observed.kind \in {"frame", "mixed"}
          /\ err' = "KeyError"
          /\ UNCHANGED observed
       \/ /\ observed.kind = "mixed"
          /\ err' = "none"
          /\ UNCHANGED observed
       \/ /\ IsSeries(observed)
          /\ err' = "AttributeError"
          /\ UNCHANGED observed
    /\ out' = <<>>
    /\ UNCHANGED <<crt, health, neo_items, texts, dat, embeds, construct_embeds, predicted, csv, pc>>

\* predicted, observed = predicted.align(observed); print(predicted.columns.tolist());
\* print(observed.columns.tolist()).
\* DataFrame.align(Series) without an axis raises ValueError. Series.align works,
\* and then predicted.columns raises AttributeError after the rebinding. Labels of
\* different types (construct names against row numbers) cannot be sorted: the
\* union raises TypeError or comes out unsorted, depending on the pandas build.
RunAlign ==
    /\ pc = "cells"
    /\ \/ /\ ~Defined(predicted) \/ ~Defined(observed)
          /\ err' = "NameError"
          /\ out' = <<>>
          /\ UNCHANGED <<predicted, observed>>
       \/ /\ IsTable(predicted) /\ IsSeries(observed)
          /\ err' = "ValueError"
          /\ out' = <<>>
          /\ UNCHANGED <<predicted, observed>>
       \/ /\ predicted.kind = "frame" /\ observed.kind = "frame"
          /\ \E aligned \in {align(predicted, observed)} :
                /\ predicted' = aligned[1]
                /\ observed' = aligned[2]
          /\ out' = <<[tag |-> "columns", labels |-> predicted'.columns],
                      [tag |-> "columns", labels |-> observed'.columns]>>
          /\ err' = "none"
       \/ /\ IsTable(predicted) /\ IsTable(observed)
          /\ ~(predicted.kind = "frame" /\ observed.kind = "frame")
          /\ \/ /\ err' = "TypeError"
                /\ out' = <<>>
                /\ UNCHANGED <<predicted, observed>>
             \/ /\ predicted' = Mixed
                /\ observed' = Mixed
                /\ out' = <<[tag |-> "columns", labels |-> <<>>],
                            [tag |-> "columns", labels |-> <<>>]>>
                /\ err' = "none"
       \/ /\ IsSeries(predicted) /\ IsSeries(observed)
          /\ predicted.kind = "mixed_series" \/ observed.kind = "mixed_series"
          /\ predicted' = MixedSeries
          /\ observed' = MixedSeries
          /\ err' = "AttributeError"
          /\ out' = <<>>
       \/ /\ predicted.kind = "series" /\ observed.kind = "series"
          /\ \E n \in {Max(Len(predicted.values), Len(observed.values))} :
                /\ predicted' = Series(PadTo(predicted.values, n))
                /\ observed' = Series(PadTo(observed.values, n))
          /\ err' = "AttributeError"
          /\ out' = <<>>
       \/ /\ predicted.kind = "series" /\ observed.kind = "long"
          /\ predicted' = Series(PadTo(predicted.values,
                                       Max(Len(predicted.values), Len(observed.rows))))
          /\ observed' = IF Len(predicted.values) <= Len(observed.rows)
                         THEN observed ELSE Mixed
          /\ err' = "AttributeError"
          /\ out' = <<>>
       \/ /\ IsSeries(predicted) /\ IsTable(observed)
          /\ ~(predicted.kind = "series" /\ observed.kind = "long")
          /\ \/ /\ err' = "TypeError"
                /\ UNCHANGED <<predicted, observed>>
             \/ /\ predicted' = MixedSeries
                /\ observed' = Mixed
                /\ err' = "AttributeError"
          /\ out' = <<>>
    /\ UNCHANGED <<crt, health, neo_items, texts, dat, embeds, construct_embeds, csv, pc>>

\* lower_triangle_flat of a table whose contents are not followed
FlatOf(x) == IF x.kind = "frame" THEN lower_triangle_flat(x) ELSE MixedSeries

\* a flatten that raises on tables only and lets a Series through
CertainlyRaises_TablesOnly(x) ==
    \/ x.kind = "frame" /\ FlatRaises(x)
    \/ /\ x.kind = "long"
       /\ \E k \in DOMAIN triu_indices(Len(x.rows)) : triu_indices(Len(x.rows))[k][2] > 3

\* lower_triangle_flat(x) certainly raises IndexError: a Series (its values have one
\* dimension, df.values[rows, cols] indexes two, whatever the length), a frame
\* with too few columns, or the three-column table of the csv rows when it has
\* more than three rows
CertainlyRaises(x) ==
    \/ IsSeries(x)
    \/ x.kind = "frame" /\ FlatRaises(x)
    \/ /\ x.kind = "long"
       /\ \E k \in DOMAIN triu_indices(Len(x.rows)) : triu_indices(Len(x.rows))[k][2] > 3

\* predicted, observed = lower_triangle_flat(predicted), lower_triangle_flat(observed);
\* print(r); print(r of absolute values).
\* The flattened csv table holds label strings, or nothing at all: corr raises. Of
\* a mixed frame every outcome is allowed.
RunFlatten ==
    /\ pc = "cells"
    /\ \/ /\ ~Defined(predicted) \/ ~Defined(observed)
          /\ err' = "NameError"
          /\ out' = <<>>
          /\ UNCHANGED <<predicted, observed>>
       \/ /\ predicted.kind = "frame" /\ observed.kind = "frame"
          /\ IF FlatRaises(predicted) \/ FlatRaises(observed)
             THEN /\ err' = "IndexError"
                  /\ out' = <<>>
                  /\ UNCHANGED <<predicted, observed>>
             ELSE /\ predicted' = lower_triangle_flat(predicted)
                  /\ observed' = lower_triangle_flat(observed)
                  /\ \E r \in CorrOutcomes(predicted'.values, observed'.values),
                        ra \in CorrOutcomes(SeriesAbs(predicted'.values),
                                            SeriesAbs(observed'.values)) :
                        IF r = "AttributeError"
                        THEN /\ err' = "AttributeError"
                             /\ out' = <<>>
                        ELSE /\ out' = <<[tag |-> "r", r |-> r], [tag |-> "r_abs", r |-> ra]>>
                             /\ err' = "none"
       \/ /\ Defined(predicted) /\ Defined(observed)
          /\ ~(predicted.kind = "frame" /\ observed.kind = "frame")
          /\ \/ /\ \/ CertainlyRaises(predicted) \/ CertainlyRaises(observed)
                   \/ predicted.kind = "mixed" \/ observed.kind = "mixed"
                /\ err' = "IndexError"
                /\ out' = <<>>
                /\ UNCHANGED <<predicted, observed>>
             \/ /\ ~CertainlyRaises(predicted) /\ ~CertainlyRaises(observed)
                /\ predicted' = FlatOf(predicted)
                /\ observed' = FlatOf(observed)
                /\ \/ /\ err' \in {"AttributeError", "ValueError"}
                      /\ out' = <<>>
                   \/ /\ observed.kind /= "long"
                      /\ \E r \in {"nan", "number"}, ra \in {"nan", "number"} :
                            out' = <<[tag |-> "r", r |-> r], [tag |-> "r_abs", r |-> ra]>>
                      /\ err' = "none"
    /\ UNCHANGED <<crt, health, neo_items, texts, dat, embeds, construct_embeds, csv, pc>>

NextCells ==
    \/ RunEmbeds
    \/ RunGroupby
    \/ RunCosine
    \/ RunReadCsv
    \/ RunPivot
    \/ RunAlign
    \/ RunFlatten

SpecCells == InitCells /\ [][NextCells]_vars

\* ------------------------------------------------------------------ the batched feature extraction
\* The model is a function of the tokens of a text (tokenize pads every text to the
\* same length, and inference runs under no_grad): the [CLS] hidden state of each
\* text, by text identifier. The three texts embed differently.
TextEmbedding == <<(<<1, 0>>), (<<0, 1>>), (<<1, 1>>)>>

TextIds == DOMAIN TextEmbedding

\* the items of NEO_items.csv: a text with its construct; two texts share a construct
MapItems == {<<1, 1>>, <<2, 1>>, <<3, 2>>}

\* a feature extraction that returns the rows of a batch last to first
extract_features_reversed(batch) ==
    [k \in DOMAIN batch |-> TextEmbedding[batch[Len(batch) + 1 - k]]]

\* extract_features(batch): last_hidden_state[:, 0], one row per text of the batch
extract_features(batch) == [k \in DOMAIN batch |-> TextEmbedding[batch[k]]]

Min(a, b) == IF a <= b THEN a ELSE b

\* the kernel before the feature extraction: the items are read and tokenized
InitMap ==
    /\ crt = NotStarted
    /\ health = NotStarted
    /\ \E items \in SeqsUpTo(MapItems, 1, MaxMapItems) :
          /\ texts = [k \in DOMAIN items |-> items[k][1]]
          /\ neo_items = [k \in DOMAIN items |-> items[k][2]]
    /\ dat = <<>>
    /\ embeds = Undef
    /\ construct_embeds = Undef
    /\ predicted = Undef
    /\ observed = Undef
    /\ csv = <<>>
    /\ out = <<>>
    /\ err = "none"
    /\ pc = "map"

\* one batch of dat.map(extract_features, batched=True, batch_size=8): the next
\* BatchSize rows, or the rows that are left, are handed to extract_features and
\* its rows are written after those of the batches before
MapBatch ==
    /\ pc = "map"
    /\ \E hi \in {Min(Len(dat) + BatchSize, Len(texts))} :
          /\ dat' = dat \o extract_features(SubSeq(texts, Len(dat) + 1, hi))
          /\ pc' = IF hi = Len(texts) THEN "embeds" ELSE "map"
    /\ UNCHANGED <<crt, health, neo_items, texts, embeds, construct_embeds, predicted, observed, csv, out, err>>

NextMap ==
    \/ MapBatch
    \/ CellEmbeds
    \/ CellGroupby

SpecMap == InitMap /\ [][NextMap]_vars

\* ------------------------------------------------------------------ exercise 1: regression on the features
\* A health state: the identifier of its feature row (the hidden state of its text)
\* and its label (the average severity rating). States may share either.
HealthItems == {<<1, 1>>, <<1, 2>>, <<2, 1>>, <<2, 2>>}

\* train_test_split with the default test_size=0.25: the test set has
\* ceil(0.25 * n) samples and the train set the others
NTest(n) == (n + 3) \div 4

\* a split that hands the whole shuffled data to the train set
TrainIndices_All(perm, n_test) == perm

\* ShuffleSplit: the test indices are the first n_test of the permutation, the
\* train indices the ones after them
TrainIndices(perm, n_test) == SubSeq(perm, n_test + 1, Len(perm))

TestIndices(perm, n_test) == SubSeq(perm, 1, n_test)

\* the rows of a data frame at the given positions, each with its index label
TakeRows(df, idx) == [k \in DOMAIN idx |-> [index |-> idx[k], row |-> df[idx[k]]]]

\* the elements of a tensor at the given positions
TakeValues(col, idx) == [k \in DOMAIN idx |-> col[idx[k]]]

\* the shufflings of n samples: random_state=42 fixes one, which depends on n and
\* on the numpy build
Shuffles(n) == {[k \in 1..n |-> f[k]] : f \in Permutations(1..n)}

\* the kernel after embeds = pd.DataFrame(dat['hidden_state']) and regr = RidgeCV()
InitHealth ==
    /\ \E items \in SeqsUpTo(HealthItems, 1, MaxHealthItems) :
          health = [pc |-> "split",
                    embeds |-> [k \in DOMAIN items |-> items[k][1]],
                    labels |-> [k \in DOMAIN items |-> items[k][2]],
                    X_train |-> <<>>, X_test |-> <<>>, y_train |-> <<>>, y_test |-> <<>>,
                    fitted |-> Undef, scored |-> Undef, err |-> "none"]
    /\ crt = NotStarted
    /\ neo_items = <<>>
    /\ texts = <<>>
    /\ dat = <<>>
    /\ embeds = Undef
    /\ construct_embeds = Undef
    /\ predicted = Undef
    /\ observed = Undef
    /\ csv = <<>>
    /\ out = <<>>
    /\ err = "none"
    /\ pc = "off"

Comparison == <<neo_items, texts, dat, embeds, construct_embeds, predicted, observed, csv, out, err, pc>>

\* X_train, X_test, y_train, y_test = train_test_split(embeds, dat['labels'], random_state=42):
\* ValueError when the train set would be empty
HealthSplit ==
    /\ health.pc = "split"
    /\ LET n == Len(health.embeds)
       IN IF n - NTest(n) = 0
          THEN health' = [health EXCEPT !.pc = "stopped", !.err = "ValueError"]
          ELSE \E perm \in Shuffles(n) :
                  health' = [health EXCEPT
                      !.pc = "fit",
                      !.X_train = TakeRows(health.embeds, TrainIndices(perm, NTest(n))),
                      !.X_test = TakeRows(health.embeds, TestIndices(perm, NTest(n))),
                      !.y_train = TakeValues(health.labels, TrainIndices(perm, NTest(n))),
                      !.y_test = TakeValues(health.labels, TestIndices(perm, NTest(n)))]
    /\ UNCHANGED <<crt, Comparison>>

\* regr.fit(X_train, y_train)
HealthFit ==
    /\ health.pc = "fit"
    /\ health' = [health EXCEPT !.pc = "score",
                                !.fitted = [kind |-> "data", X |-> health.X_train,
                                            y |-> health.y_train]]
    /\ UNCHANGED <<crt, Comparison>>

\* regr.score(X_test, y_test)
HealthScore ==
    /\ health.pc = "score"
    /\ health' = [health EXCEPT !.pc = "done",
                                !.scored = [kind |-> "data", X |-> health.X_test,
                                            y |-> health.y_test]]
    /\ UNCHANGED <<crt, Comparison>>

NextHealth ==
    \/ HealthSplit
    \/ HealthFit
    \/ HealthScore

SpecHealth == InitHealth /\ [][NextHealth]_vars

\* ------------------------------------------------------------------ exercise 1: fine-tuning
CeilDiv(a, b) == (a + b - 1) \div b

\* the batches of one epoch: the last one may be partial (dataloader_drop_last=False)
StepsPerEpoch(n) == CeilDiv(n, TrainBatchSize)

MaxSteps(n) == NumTrainEpochs * StepsPerEpoch(n)

\* logging_steps=1/batch_size is the float 0.125. A transformers build that knows
\* ratios logs every ceil(max_steps * 0.125) steps; an older build tests
\* global_step % 0.125 == 0, which holds at every step.
LoggingIntervals(n) == {1, CeilDiv(MaxSteps(n), TrainBatchSize)}

\* the kernel when trainer.train() is called: the Trainer holds the train split
InitTune ==
    /\ \E n \in 1..MaxTrainSize :
       \E every \in LoggingIntervals(n) :
          health = [pc |-> "train", n_train |-> n, logging_steps |-> every,
                       global_step |-> 0, epoch |-> 0, seen |-> 0, samples |-> 0,
                       log_history |-> <<>>, eval_history |-> <<>>]
    /\ crt = NotStarted
    /\ neo_items = <<>>
    /\ texts = <<>>
    /\ dat = <<>>
    /\ embeds = Undef
    /\ construct_embeds = Undef
    /\ predicted = Undef
    /\ observed = Undef
    /\ csv = <<>>
    /\ out = <<>>
    /\ err = "none"
    /\ pc = "off"

\* one training step of trainer.train(): the next batch of the epoch, then the
\* callbacks: the training metrics are logged when global_step is a multiple of
\* logging_steps; at the end of the epoch the model is evaluated on the test split
\* (evaluation_strategy="epoch"); after num_train_epochs epochs training ends
TrainStep ==
    /\ health.pc = "train"
    /\ LET batch == Min(TrainBatchSize, health.n_train - health.seen)
           step == health.global_step + 1
           epoch_ends == health.seen + batch = health.n_train
           epoch == IF epoch_ends THEN health.epoch + 1 ELSE health.epoch
       IN health' = [health EXCEPT
              !.global_step = step,
              !.samples = health.samples + batch,
              !.seen = IF epoch_ends THEN 0 ELSE health.seen + batch,
              !.epoch = epoch,
              !.log_history = IF step % health.logging_steps = 0
                              THEN Append(health.log_history, step)
                              ELSE health.log_history,
              !.eval_history = IF epoch_ends
                               THEN Append(health.eval_history, step)
                               ELSE health.eval_history,
              !.pc = IF step >= MaxSteps(health.n_train) THEN "trained" ELSE "train"]
    /\ UNCHANGED <<crt, Comparison>>

SpecTune == InitTune /\ [][TrainStep]_vars

\* ------------------------------------------------------------------ exercise 3: generation
\* a text is the sequence of its characters
Chars == {"a", "b", " "}

Strings(lo, hi) == SeqsUpTo(Chars, lo, hi)

\* str.replace(old, '') with the first match only
RECURSIVE replace_first(_, _)
replace_first(s, old) ==
    IF Len(s) < Len(old) THEN s
    ELSE IF SubSeq(s, 1, Len(old)) = old THEN SubSeq(s, Len(old) + 1, Len(s))
    ELSE <<Head(s)>> \o replace_first(Tail(s), old)

\* output.replace(prompt, ''): the text is scanned from the left, each match of a
\* non-empty old is left out and the scan goes on behind it
RECURSIVE replace(_, _)
replace(s, old) ==
    IF Len(s) < Len(old) THEN s
    ELSE IF SubSeq(s, 1, Len(old)) = old THEN replace(SubSeq(s, Len(old) + 1, Len(s)), old)
    ELSE <<Head(s)>> \o replace(Tail(s), old)

\* str.strip(): the whitespace at both ends is removed
RECURSIVE lstrip(_)
lstrip(s) == IF s # <<>> /\ Head(s) = " " THEN lstrip(Tail(s)) ELSE s

RECURSIVE rstrip(_)
rstrip(s) == IF s # <<>> /\ s[Len(s)] = " " THEN rstrip(SubSeq(s, 1, Len(s) - 1)) ELSE s

strip(s) == rstrip(lstrip(s))

\* print('-----------------------------')
Rule == [k \in 1..29 |-> "-"]

\* '\033[1m' + prompt + '\033[0m'
Bold(s) == <<"\\033[1m">> \o s \o <<"\\033[0m">>

\* the lines one turn of the loop prints for a prompt and its output
Turn(prompt, output) ==
    <<Rule, Bold(prompt), Rule, strip(replace(output[1].generated_text, prompt))>>

\* for prompt, output in zip(prompts, outputs): the pairs in list order, as many as
\* the shorter list has
RECURSIVE PrintLoop(_, _)
PrintLoop(ps, os) ==
    IF ps = <<>> \/ os = <<>> THEN <<>>
    ELSE Turn(Head(ps), Head(os)) \o PrintLoop(Tail(ps), Tail(os))

\* the kernel after the prompts cell: a list of prompts, none empty
InitGenerate ==
    /\ \E ps \in SeqsUpTo(Strings(1, MaxPromptLen), 1, MaxPrompts) :
          crt = [pc |-> "generate", prompts |-> ps, outputs |-> Undef, printed |-> <<>>]
    /\ health = NotStarted
    /\ neo_items = <<>>
    /\ texts = <<>>
    /\ dat = <<>>
    /\ embeds = Undef
    /\ construct_embeds = Undef
    /\ predicted = Undef
    /\ observed = Undef
    /\ csv = <<>>
    /\ out = <<>>
    /\ err = "none"
    /\ pc = "off"

\* the generation cell: the text-generation pipeline returns, for each prompt in
\* list order, a list of one dictionary whose generated_text is the prompt
\* followed by the text the model sampled; then the loop prints
CellGenerate ==
    /\ crt.pc = "generate"
    /\ \E new \in [DOMAIN crt.prompts -> Strings(0, MaxNewChars)] :
          LET outputs == [k \in DOMAIN crt.prompts |->
                             <<[generated_text |-> crt.prompts[k] \o new[k]]>>]
          IN crt' = [crt EXCEPT !.pc = "printed",
                                !.outputs = outputs,
                                !.printed = PrintLoop(crt.prompts, outputs)]
    /\ UNCHANGED <<health, Comparison>>

SpecGenerate == InitGenerate /\ [][CellGenerate]_vars

\* ------------------------------------------------------------------ the claims: align
\* the labels of the similarity matrix handed to align: the constructs of the items
SimLabels == Range(construct_embeds.index)

\* the labels of the reference triples, by field
RefRowLabels == {csv[k].construct_1 : k \in DOMAIN csv}

RefColLabels == {csv[k].construct_2 : k \in DOMAIN csv}

RefLabels == RefRowLabels \cup RefColLabels

StrictlySorted(s) == \A a, b \in DOMAIN s : a < b => s[a] < s[b]

\* the state right after the align cell: both frames are aligned, not yet flattened
Aligned == pc = "flatten"

\* C1 as claimed: after the align step the label sequence shared by both aligned
\* matrices is the sorted intersection of the labels of the similarity matrix and of
\* the reference triples; a label present in only one input appears in neither.
C1_SortedIntersection ==
    Aligned =>
        /\ predicted.index = SortedSeq(SimLabels \cap RefLabels)
        /\ predicted.columns = SortedSeq(SimLabels \cap RefLabels)
        /\ observed.index = SortedSeq(SimLabels \cap RefLabels)
        /\ observed.columns = SortedSeq(SimLabels \cap RefLabels)

\* C1 as amended: after the align step the rows of both aligned matrices are the
\* sorted union of the similarity labels and the construct_1 labels, their columns
\* the sorted union of the similarity labels and the construct_2 labels; a label
\* present in only one input is kept in both matrices, and the cells the input
\* lacked are NaN.
C1_SortedUnion ==
    Aligned =>
        /\ \A df \in {predicted, observed} :
              /\ StrictlySorted(df.index)
              /\ StrictlySorted(df.columns)
              /\ Range(df.index) = SimLabels \cup RefRowLabels
              /\ Range(df.columns) = SimLabels \cup RefColLabels
        /\ \A i \in DOMAIN predicted.index, j \in DOMAIN predicted.columns :
              /\ IsNaN(predicted.values[i][j]) <=>
                    ~(predicted.index[i] \in SimLabels /\ predicted.columns[j] \in SimLabels)
              /\ IsNaN(observed.values[i][j]) <=>
                    ~(\E k \in DOMAIN csv : /\ csv[k].construct_1 = observed.index[i]
                                            /\ csv[k].construct_2 = observed.columns[j])

\* C1 witness: aligned, with a label only the items have and a label only the triples have
C1_Witness ==
    /\ Aligned
    /\ SimLabels \ RefLabels /= {}
    /\ RefLabels \ SimLabels /= {}

\* C2: after the align step the row labels of the predicted matrix are those of the
\* observed matrix, in the same order, and so are the column labels; the values of
\* each have the shape of the labels.
C2_SameOrder ==
    Aligned =>
        /\ predicted.index = observed.index
        /\ predicted.columns = observed.columns
        /\ \A df \in {predicted, observed} :
              /\ Len(df.values) = Len(df.index)
              /\ \A i \in DOMAIN df.values : Len(df.values[i]) = Len(df.columns)

\* C2 witness: aligned inputs whose rows and columns all differed before
C2_Witness ==
    /\ Aligned
    /\ RefRowLabels /= SimLabels
    /\ RefColLabels /= SimLabels
    /\ RefRowLabels /= RefColLabels

\* ------------------------------------------------------------------ the claims: flatten
\* the place of the pair (i, j), i < j <= n, in the row-major order of such pairs
TriPos(i, j, n) == (i - 1) * n - (i * (i - 1)) \div 2 + (j - i)

\* the step of the flatten cell that flattened both frames
Flattened == pc = "flatten" /\ predicted'.kind = "series" /\ observed'.kind = "series"

C4_Length ==
    [][(pc = "flat" /\ Len(predicted.index) = Len(predicted.columns)) =>
        LET n == Len(predicted.index)
        IN /\ pc' = "done"
           /\ predicted'.kind = "series"
           /\ Len(predicted'.values) = (n * (n - 1)) \div 2
           /\ n <= 1 => predicted'.values = <<>>]_vars

\* C4 witness: a matrix was flattened into MaxN(MaxN-1)/2 values
C4_Witness ==
    /\ pc = "done"
    /\ predicted.kind = "series"
    /\ Len(predicted.values) = (MaxN * (MaxN - 1)) \div 2

\* the aligned labels: those the aligned matrices have as a row and as a column
AlignedLabels == Range(predicted.index) \cap Range(predicted.columns)

\* the labels of the cell the k-th flattened value is taken from
PairAt(k) ==
    LET idx == triu_indices(LenOf(predicted))
    IN <<predicted.index[idx[k][1]], predicted.columns[idx[k][2]]>>

\* C5 as claimed: in the flattened sequences every unordered pair of distinct aligned
\* labels contributes exactly one value and no self-pair contributes a value.
C5_OncePerPairNoSelf ==
    [][Flattened =>
        /\ \A k \in DOMAIN predicted'.values : PairAt(k)[1] /= PairAt(k)[2]
        /\ \A a, b \in AlignedLabels : a < b =>
              Cardinality({k \in DOMAIN predicted'.values :
                              {PairAt(k)[1], PairAt(k)[2]} = {a, b}}) = 1]_vars

\* ------------------------------------------------------------------ the claims: aggregate and build
\* the construct vectors are computed: the groupby cell has run
Aggregated == construct_embeds.kind = "frame"

\* C6: the similarity matrix produced by the build step is exactly symmetric, and
\* its rows and its columns are indexed by the construct labels, in the order of
\* the construct vectors.
C6_Symmetric ==
    pc = "read_csv" =>
        /\ predicted.kind = "frame"
        /\ predicted.index = construct_embeds.index
        /\ predicted.columns = construct_embeds.index
        /\ Len(predicted.values) = Len(predicted.index)
        /\ \A i, j \in DOMAIN predicted.index :
              /\ Len(predicted.values[i]) = Len(predicted.index)
              /\ predicted.values[i][j] = predicted.values[j][i]

\* C6 witness: a built matrix with two constructs whose similarity is none of
\* -1, 0 and 1, and two whose similarity is negative
C6_Witness ==
    /\ pc = "read_csv"
    /\ \E i, j \in DOMAIN predicted.index :
          /\ i /= j
          /\ predicted.values[i][j] \notin {<<-1, 1>>, <<0, 1>>, <<1, 1>>}
    /\ \E i, j \in DOMAIN predicted.index : predicted.values[i][j][1] < 0

\* C7: the aggregate step yields exactly one construct vector per distinct label of
\* the items, no more and no fewer, each of the dimension of the item embeddings.
C7_OnePerLabel ==
    Aggregated =>
        /\ Range(construct_embeds.index) = Range(neo_items)
        /\ Len(construct_embeds.index) = Cardinality(Range(neo_items))
        /\ Len(construct_embeds.values) = Len(construct_embeds.index)
        /\ \A i \in DOMAIN construct_embeds.values, k \in DOMAIN dat :
              DOMAIN construct_embeds.values[i] = DOMAIN dat[k]

\* C7 witness: three items of two distinct labels were aggregated
C7_Witness ==
    /\ Aggregated
    /\ Len(neo_items) = 3
    /\ Cardinality(Range(neo_items)) = 2

\* the sum of f over the finite set K
RECURSIVE SumOver(_, _)
SumOver(K, f) == IF K = {} THEN 0 ELSE LET k == CHOOSE x \in K : TRUE
                                       IN f[k] + SumOver(K \ {k}, f)

\* the items that carry label l
Carriers(l) == {k \in DOMAIN neo_items : neo_items[k] = l}

\* C8: when the groupby cell has run, the construct vector of a label is, in every
\* dimension, the arithmetic mean of the embeddings of exactly the items that carry
\* the label, and it is the same for every order of the items.
C8_Mean ==
    pc = "cosine" =>
        /\ \A i \in DOMAIN construct_embeds.index, c \in DOMAIN construct_embeds.columns :
              LET l == construct_embeds.index[i]
                  m == construct_embeds.values[i][c]
              IN /\ m[2] > 0
                 /\ m[1] * Cardinality(Carriers(l))
                       = m[2] * SumOver(Carriers(l), [k \in DOMAIN dat |-> dat[k][c]])
        /\ \A p \in Permutations(DOMAIN neo_items) :
              GroupbyMean([k \in DOMAIN dat |-> dat[p[k]]],
                          [k \in DOMAIN neo_items |-> neo_items[p[k]]]) = construct_embeds

\* C8 witness: a label carried by two items of different embeddings, another label
\* between them
C8_Witness ==
    /\ pc = "cosine"
    /\ Len(neo_items) = 3
    /\ neo_items[1] = neo_items[3]
    /\ neo_items[1] /= neo_items[2]
    /\ dat[1] /= dat[3]

\* the construct vector of row i is the zero vector
ZeroVector(i) ==
    \A c \in DOMAIN construct_embeds.columns : construct_embeds.values[i][c][1] = 0

\* C9 as claimed: if a construct vector is the zero vector the build step fails with
\* DegenerateVectorError and produces no similarity matrix.
C9_DegenerateFails ==
    (pc = "read_csv" /\ \E i \in DOMAIN construct_embeds.index : ZeroVector(i)) =>
        /\ err = "DegenerateVectorError"
        /\ predicted = Undef

\* C9 as amended: a zero construct vector does not make the build step fail; the
\* similarity matrix is produced, and every similarity of that label, its own
\* included, is 0 and not NaN, while no cell of the matrix is NaN and the
\* self-similarity of a non-zero vector is 1.
C9_ZeroRow ==
    pc = "read_csv" =>
        /\ err = "none"
        /\ predicted.kind = "frame"
        /\ \A i, j \in DOMAIN construct_embeds.index :
              /\ ~IsNaN(predicted.values[i][j])
              /\ ZeroVector(i) => /\ predicted.values[i][j] = <<0, 1>>
                                  /\ predicted.values[j][i] = <<0, 1>>
              /\ ~ZeroVector(i) => predicted.values[i][i] = <<1, 1>>

\* C9 witness: a matrix built from a zero construct vector and a non-zero one
C9_Witness ==
    /\ pc = "read_csv"
    /\ \E i, j \in DOMAIN construct_embeds.index : ZeroVector(i) /\ ~ZeroVector(j)

\* ------------------------------------------------------------------ the claims: pivot
\* the pivot cell has run
PivotRan == pc \in {"align", "flatten", "done"} \/ err /= "none"

\* the pivot cell failed (no other cell raises ValueError)
PivotFailed == err = "ValueError"

\* two rows of the reference table give the same unordered pair different values
ConflictingPair ==
    \E a, b \in DOMAIN csv :
        /\ a /= b
        /\ {csv[a].construct_1, csv[a].construct_2} = {csv[b].construct_1, csv[b].construct_2}
        /\ csv[a].correlation /= csv[b].correlation

\* the (construct_1, construct_2) pairs of the reference table, as ordered pairs
OrderedPairs == {<<csv[k].construct_1, csv[k].construct_2>> : k \in DOMAIN csv}

\* C10 as claimed: building the reference matrix fails exactly when the same
\* unordered pair appears twice with conflicting values.
C10_FailsOnConflict == PivotRan => (PivotFailed <=> ConflictingPair)

\* C10 as amended: building the reference matrix fails (with pandas' ValueError)
\* exactly when the same ordered pair (construct_1, construct_2) appears in two
\* rows, whether their values agree or conflict; a pair that appears once in each
\* orientation does not fail, even with conflicting values, and then each row's
\* value is the cell (construct_1, construct_2) of the pivoted matrix.
C10_FailsOnRepeat ==
    /\ PivotRan => (PivotFailed <=> Cardinality(OrderedPairs) < Len(csv))
    /\ pc = "align" =>
          \A k \in DOMAIN csv :
              observed.values[PosOf(observed.index, csv[k].construct_1)]
                             [PosOf(observed.columns, csv[k].construct_2)]
                 = Num(csv[k].correlation)

\* C10 witness: the pivot failed on a row repeated with the same value
C10_Witness ==
    /\ PivotFailed
    /\ Len(csv) = 2
    /\ csv[1] = csv[2]

\* ------------------------------------------------------------------ the claims: mismatched matrices
\* the flatten cell is handed two matrices that differ in size or label ordering
Mismatched ==
    /\ predicted.kind = "frame"
    /\ observed.kind = "frame"
    /\ predicted.index /= observed.index \/ predicted.columns /= observed.columns

\* two or more rows and fewer columns than rows
TooFewColumns(df) == Len(df.index) >= 2 /\ Len(df.columns) < Len(df.index)

\* s is the row-major reading of the cells of df above the diagonal
ReadsUpperTriangle(s, df) ==
    /\ s.kind = "series"
    /\ Len(s.values) = (Len(df.index) * (Len(df.index) - 1)) \div 2
    /\ \A i, j \in DOMAIN df.index :
          i < j => s.values[TriPos(i, j, Len(df.index))] = df.values[i][j]

\* C11 as claimed: when the two matrices handed to the flatten step differ in size
\* or in label ordering, the step fails with ShapeMismatchError, leaves both
\* unflattened and prints no correlation.
C11_ShapeMismatchFails ==
    [][(RunFlatten /\ Mismatched) =>
           /\ err' = "ShapeMismatchError"
           /\ UNCHANGED <<predicted, observed>>
           /\ out' = <<>>]_vars

\* C11 as amended: the flatten step never compares the two matrices, each is
\* flattened on its own by position. Handed matrices that differ in size or label
\* ordering, it raises IndexError, leaving both unflattened and printing nothing,
\* exactly when one of them has two or more rows and fewer columns than rows;
\* otherwise both are replaced by the reading of their own upper triangle, n(n-1)/2
\* entries for n rows, so the two sequences may differ in length.
C11_FlattenedApart ==
    [][(RunFlatten /\ Mismatched) =>
           IF TooFewColumns(predicted) \/ TooFewColumns(observed)
           THEN /\ err' = "IndexError"
                /\ UNCHANGED <<predicted, observed>>
                /\ out' = <<>>
           ELSE /\ ReadsUpperTriangle(predicted', predicted)
                /\ ReadsUpperTriangle(observed', observed)
                /\ err' /= "IndexError"]_vars

\* C11 witness: two flattened sequences of different lengths, read from matrices of
\* different sizes
C11_Witness ==
    /\ predicted.kind = "series"
    /\ observed.kind = "series"
    /\ Len(predicted.values) /= Len(observed.values)

\* ------------------------------------------------------------------ the claims: the score step
\* the lines the flatten-and-score cell prints for correlations r and ra
ScoreLines(r, ra) == <<[tag |-> "r", r |-> r], [tag |-> "r_abs", r |-> ra]>>

\* the flattened sequences have fewer than 2 elements
TooShort == Flattened /\ Len(predicted'.values) < 2

\* C12 as claimed: when the flattened sequences have fewer than 2 elements the score
\* step raises InsufficientDataError and prints neither the raw nor the
\* absolute-value correlation.
C12_InsufficientDataFails ==
    [][TooShort => (err' = "InsufficientDataError" /\ out' = out)]_vars

\* C12 as amended: when the flattened sequences have fewer than 2 elements the score
\* step never raises InsufficientDataError. With one element that is a value in
\* both sequences it prints nan for the raw and for the absolute-value correlation
\* and the run completes; with no element, or with one that is NaN in either
\* sequence, it raises AttributeError and prints nothing.
C12_NanOrAttributeError ==
    [][TooShort =>
           IF /\ Len(predicted'.values) = 1
              /\ ~IsNaN(predicted'.values[1])
              /\ ~IsNaN(observed'.values[1])
           THEN /\ out' = out \o ScoreLines("nan", "nan")
                /\ err' = "none"
                /\ pc' = "done"
           ELSE /\ err' = "AttributeError"
                /\ out' = out
                /\ pc' = "stopped"]_vars

\* C12 witness: a completed run whose flattened sequences hold one pair
C12_Witness ==
    /\ pc = "done"
    /\ Len(predicted.values) = 1
    /\ Len(observed.values) = 1
    /\ out[Len(out)].r = "nan"

\* ------------------------------------------------------------------ the claims: no recovery path
\* the score step has printed a correlation
Printed == \E k \in DOMAIN out : out[k].tag = "r"

\* a stage's precondition, as the claim lists them, is violated in a run that has
\* flattened: a label present in only one input, a zero construct vector, a pair
\* without a value in either sequence, fewer than two pairs
PreconditionViolated ==
    \/ SimLabels /= RefLabels
    \/ \E i \in DOMAIN construct_embeds.index : ZeroVector(i)
    \/ \E k \in DOMAIN predicted.values : IsNaN(predicted.values[k])
    \/ \E k \in DOMAIN observed.values : IsNaN(observed.values[k])
    \/ Len(predicted.values) < 2

\* C13 as claimed: a run in which some stage's precondition is violated aborts
\* before the score step prints anything; no correlation is printed from partial,
\* missing or default values.
C13_AbortsOnViolation == Printed => ~PreconditionViolated

\* the positions above the diagonal where both aligned matrices hold a value
CompletePairs ==
    {p \in (DOMAIN predicted.index) \X (DOMAIN predicted.index) :
        /\ p[1] < p[2]
        /\ ~IsNaN(predicted.values[p[1]][p[2]])
        /\ ~IsNaN(observed.values[p[1]][p[2]])}

\* C13 as amended: a run aborts in three cases only, each before the score step
\* prints anything: the reference table repeats an ordered pair (ValueError at the
\* pivot), the aligned matrices have two or more rows and fewer columns than rows
\* (IndexError at the flatten), or no position above the diagonal holds a value in
\* both aligned matrices (AttributeError at the score). Every other run, whatever
\* labels, pairs or vectors are missing or zero, prints both correlations, computed
\* from the positions where both matrices hold a value; with one such position the
\* printed correlation is nan.
C13_AbortsOnlyOn ==
    [][/\ pc = "pivot" =>
             IF Cardinality(OrderedPairs) < Len(csv)
             THEN pc' = "stopped" /\ err' = "ValueError" /\ out' = out
             ELSE pc' = "align" /\ err' = "none"
       /\ pc = "flatten" =>
             IF TooFewColumns(predicted)
             THEN pc' = "stopped" /\ err' = "IndexError" /\ out' = out
             ELSE IF CompletePairs = {}
             THEN pc' = "stopped" /\ err' = "AttributeError" /\ out' = out
             ELSE /\ pc' = "done"
                  /\ err' = "none"
                  /\ \E r, ra \in {"nan", "number"} :
                        /\ out' = out \o ScoreLines(r, ra)
                        /\ Cardinality(CompletePairs) = 1 => r = "nan" /\ ra = "nan"
       /\ pc \notin {"pivot", "flatten"} => pc' /= "stopped" /\ err' = "none"]_vars

\* C13 witness: a completed run that printed a number although a pair of the
\* flattened reference sequence has no value
C13_Witness ==
    /\ pc = "done"
    /\ \E k \in DOMAIN observed.values : IsNaN(observed.values[k])
    /\ out[Len(out) - 1] = [tag |-> "r", r |-> "number"]

\* ------------------------------------------------------------------ the claims: the reference matrix
\* the pivot cell has built the reference matrix
Pivoted == pc = "align"

\* the cell (a, b) of the reference matrix holds a value
HoldsValue(a, b) ==
    /\ a \in Range(observed.index)
    /\ b \in Range(observed.columns)
    /\ ~IsNaN(observed.values[PosOf(observed.index, a)][PosOf(observed.columns, b)])

\* C14 as claimed: the reference matrix built from the triples is square with the
\* same label set on its rows and its columns, holds at most one value per unordered
\* label pair, and a pair that has no triple is NaN and not zero.
C14_SquareUnordered ==
    Pivoted =>
        /\ observed.index = observed.columns
        /\ \A a, b \in Labels : a /= b => ~(HoldsValue(a, b) /\ HoldsValue(b, a))
        /\ \A a, b \in Range(observed.index) :
              (\A k \in DOMAIN csv : {csv[k].construct_1, csv[k].construct_2} /= {a, b})
                  => ~HoldsValue(a, b)

\* C14 as amended: the rows of the reference matrix are the sorted distinct
\* construct_1 labels and its columns the sorted distinct construct_2 labels, so it
\* need not be square nor have the same labels on both axes; it holds one value per
\* ordered pair (construct_1, construct_2) that has a triple, that triple's value,
\* so a pair listed in both orientations holds two; a cell whose ordered pair has no
\* triple is NaN and not zero.
C14_OrderedCells ==
    Pivoted =>
        /\ observed.index = SortedSeq(RefRowLabels)
        /\ observed.columns = SortedSeq(RefColLabels)
        /\ \A i \in DOMAIN observed.index, j \in DOMAIN observed.columns :
              LET K == {k \in DOMAIN csv : /\ csv[k].construct_1 = observed.index[i]
                                           /\ csv[k].construct_2 = observed.columns[j]}
              IN IF K = {}
                 THEN observed.values[i][j] = NaN /\ observed.values[i][j] /= Num(0)
                 ELSE \A k \in K : observed.values[i][j] = Num(csv[k].correlation)

\* C14 witness: a reference matrix whose row labels are not its column labels, with
\* a cell that has no triple
C14_Witness ==
    /\ Pivoted
    /\ Range(observed.index) /= Range(observed.columns)
    /\ \E i \in DOMAIN observed.index, j \in DOMAIN observed.columns :
          IsNaN(observed.values[i][j])

\* ------------------------------------------------------------------ the claims: batching
\* the batched map has written every row
Mapped == pc \in {"embeds", "groupby", "cosine"}

\* C15: for any number of items, a multiple of the batch size or not, after the
\* batched feature-extraction map the k-th hidden_state row is the embedding of the
\* k-th text, and the construct label attached to row k of the embeddings table is
\* the label of the k-th item.
C15_RowOfItsItem ==
    /\ Mapped =>
          /\ Len(dat) = Len(texts)
          /\ \A k \in DOMAIN texts : dat[k] = TextEmbedding[texts[k]]
    /\ pc = "cosine" =>
          /\ DOMAIN embeds.rows = DOMAIN texts
          /\ \A k \in DOMAIN texts :
                /\ embeds.rows[k] = TextEmbedding[texts[k]]
                /\ embeds.construct[k] = neo_items[k]

\* C15 witness: more items than one batch holds, the last batch not full, texts of
\* different embeddings and constructs in both batches
C15_Witness ==
    /\ pc = "cosine"
    /\ Len(texts) > BatchSize
    /\ Len(texts) % BatchSize /= 0
    /\ texts[1] /= texts[2]
    /\ texts[Len(texts)] /= texts[1]
    /\ neo_items[Len(texts)] /= neo_items[1]

\* ------------------------------------------------------------------ the claims: which triangle
\* C16 as claimed: lower_triangle_flat returns the entries of the lower triangle of
\* the matrix, the diagonal excluded: every returned value is the value at some
\* position (i, j) with i > j.
C16_LowerTriangle ==
    [][(pc = "flat" /\ predicted'.kind = "series") =>
           \A k \in DOMAIN predicted'.values :
               \E i \in DOMAIN predicted.index, j \in DOMAIN predicted.columns :
                   /\ i > j
                   /\ predicted'.values[k] = predicted.values[i][j]]_vars

\* ------------------------------------------------------------------ the claims: align twice
\* the align cell is executed on two matrices
AlignsFrames == RunAlign /\ predicted.kind = "frame" /\ observed.kind = "frame"

\* C17: align is idempotent on label ordering. Whenever it is executed on the
\* matrices of the same inputs, however often they were rebuilt or aligned before,
\* both results have the same row order and the same column order, the sorted
\* unions of the input labels; and executed on its own outputs it leaves the rows,
\* the columns and the cells of both matrices unchanged.
C17_Idempotent ==
    [][AlignsFrames =>
           /\ predicted'.index = SortedSeq(SimLabels \cup RefRowLabels)
           /\ predicted'.columns = SortedSeq(SimLabels \cup RefColLabels)
           /\ observed'.index = predicted'.index
           /\ observed'.columns = predicted'.columns
           /\ (predicted.index = observed.index /\ predicted.columns = observed.columns)
                 => (predicted' = predicted /\ observed' = observed)]_vars

\* C17 witness: the align cell has just printed the columns of two matrices to
\* which it had added a label the similarity matrix lacked
C17_Witness ==
    /\ pc = "cells"
    /\ err = "none"
    /\ Len(out) = 2
    /\ out[1].tag = "columns"
    /\ predicted.kind = "frame"
    /\ Range(predicted.columns) /= SimLabels

\* ------------------------------------------------------------------ the claims: orientation of a triple
\* C18 as claimed: for every reference triple (a, b, v) of two distinct labels that
\* both occur among the item constructs, the flattened observed sequence holds v at
\* the position of the pair {a, b}, whether the triple is listed as (a, b) or as
\* (b, a) and however a and b sort.
C18_ValueAtPair ==
    [][Flattened =>
           \A t \in DOMAIN csv :
               (/\ csv[t].construct_1 /= csv[t].construct_2
                /\ csv[t].construct_1 \in SimLabels
                /\ csv[t].construct_2 \in SimLabels)
               => \E k \in DOMAIN observed'.values :
                     /\ {PairAt(k)[1], PairAt(k)[2]} = {csv[t].construct_1, csv[t].construct_2}
                     /\ observed'.values[k] = Num(csv[t].correlation)]_vars

\* ------------------------------------------------------------------ the claims: flattened once
\* the lines of the executed cell hold a correlation
PrintsCorrelation == \E k \in DOMAIN out' : out'[k].tag = "r"

\* C19: under any order and repetition of cell executions a correlation is only ever
\* printed from matrices that were flattened exactly once. A correlation is printed
\* by the flatten-and-score cell alone, from two tables that this execution
\* replaces by their flattened sequences; executed on a flattened sequence the cell
\* raises IndexError, prints nothing and leaves both names as they are; and a
\* flattened predicted (observed) only becomes a table again by the cell that
\* rebuilds it from the construct vectors (from the csv file).
C19_FlattenedOnce ==
    [][/\ PrintsCorrelation =>
             /\ RunFlatten
             /\ IsTable(predicted) /\ IsTable(observed)
             /\ IsSeries(predicted') /\ IsSeries(observed')
             /\ err' = "none"
       /\ (RunFlatten /\ (IsSeries(predicted) \/ IsSeries(observed))) =>
             /\ err' = "IndexError"
             /\ out' = <<>>
             /\ UNCHANGED <<predicted, observed>>
       /\ (IsSeries(predicted) /\ IsTable(predicted')) => RunCosine
       /\ (IsSeries(observed) /\ IsTable(observed')) => RunReadCsv]_vars

\* C19 witness: the flatten-and-score cell executed a second time, on the flattened
\* sequences of the first execution, has raised
C19_Witness ==
    /\ pc = "cells"
    /\ err = "IndexError"
    /\ out = <<>>
    /\ predicted.kind = "series"
    /\ observed.kind = "series"
    /\ Len(predicted.values) >= 1

\* ------------------------------------------------------------------ the claims: held-out test set
\* the index labels of the rows of a set
IndexOf(X) == {X[k].index : k \in DOMAIN X}

\* every row of the set is the feature row of its item, next to that item's label
PairedWithItsLabel(X, y) ==
    /\ DOMAIN X = DOMAIN y
    /\ \A k \in DOMAIN X :
          /\ X[k].row = health.embeds[X[k].index]
          /\ y[k] = health.labels[X[k].index]

\* C20: in the feature-extraction regression of exercise 1 the train and the test
\* set of the split are disjoint and together hold every item once, each feature
\* row stays paired with its own label in both sets, and the regression is fitted
\* on the train set only and scored on the held-out test set only.
C20_HeldOut ==
    /\ health.pc \in {"fit", "score", "done"} =>
          /\ IndexOf(health.X_train) \cap IndexOf(health.X_test) = {}
          /\ IndexOf(health.X_train) \cup IndexOf(health.X_test) = DOMAIN health.embeds
          /\ Len(health.X_train) + Len(health.X_test) = Len(health.embeds)
          /\ PairedWithItsLabel(health.X_train, health.y_train)
          /\ PairedWithItsLabel(health.X_test, health.y_test)
    /\ health.pc \in {"score", "done"} =>
          /\ IndexOf(health.fitted.X) \cap IndexOf(health.X_test) = {}
          /\ PairedWithItsLabel(health.fitted.X, health.fitted.y)
          /\ IndexOf(health.fitted.X) = DOMAIN health.embeds \ IndexOf(health.X_test)
    /\ health.pc = "done" =>
          /\ IndexOf(health.scored.X) \cap IndexOf(health.fitted.X) = {}
          /\ PairedWithItsLabel(health.scored.X, health.scored.y)
          /\ IndexOf(health.scored.X) = IndexOf(health.X_test)

\* C20 witness: fitted and scored on a shuffled split, the items differing in
\* feature and in label
C20_Witness ==
    /\ health.pc = "done"
    /\ Len(health.X_train) >= 2
    /\ health.X_train[1].index > health.X_train[2].index
    /\ health.X_test[1].index /= 1
    /\ Cardinality(Range(health.embeds)) > 1
    /\ Cardinality(Range(health.labels)) > 1

\* ------------------------------------------------------------------ the claims: fine-tuning
\* the training steps of epoch e
StepsOfEpoch(e) ==
    {k \in 1..MaxSteps(health.n_train) :
        /\ k > (e - 1) * StepsPerEpoch(health.n_train)
        /\ k <= e * StepsPerEpoch(health.n_train)}

\* C21 as claimed: fine-tuning iterates over the training data exactly 10 times, the
\* model is evaluated on the test split at the end of every epoch, and the
\* training metrics are logged at every epoch.
C21_EveryEpoch ==
    health.pc = "trained" =>
        /\ health.epoch = NumTrainEpochs
        /\ health.samples = NumTrainEpochs * health.n_train
        /\ health.eval_history =
              [e \in 1..NumTrainEpochs |-> e * StepsPerEpoch(health.n_train)]
        /\ \A e \in 1..NumTrainEpochs :
              \E k \in DOMAIN health.log_history : health.log_history[k] \in StepsOfEpoch(e)

\* ------------------------------------------------------------------ the claims: generation
\* the positions of s where a copy of p starts
Occurrences(s, p) == {i \in 1..(Len(s) - Len(p) + 1) : SubSeq(s, i, i + Len(p) - 1) = p}

\* the positions of s that the copies of p starting at the positions of C cover
Covered(C, p) == UNION {i..(i + Len(p) - 1) : i \in C}

\* s without the positions of the set D
RECURSIVE Without(_, _, _)
Without(s, D, i) ==
    IF i > Len(s) THEN <<>>
    ELSE (IF i \in D THEN <<>> ELSE <<s[i]>>) \o Without(s, D, i + 1)

\* the copies of p in s that are cut when C holds the positions of disjoint copies,
\* the leading one among them, and no copy of p in s is left whole
CutsAll(C, s, p) ==
    /\ 1 \in C
    /\ \A i, j \in C : i # j => (i + Len(p) <= j \/ j + Len(p) <= i)
    /\ \A i \in Occurrences(s, p) : (i..(i + Len(p) - 1)) \cap Covered(C, p) # {}

\* the response printed for the k-th prompt: the fourth line of its turn
Response(k) == crt.printed[4 * k]

\* the text of the k-th generator output
Generated(k) == crt.outputs[k][1].generated_text

\* C22 as claimed: for the k-th prompt the printed response is taken from the k-th
\* generator output, and the printed text contains no occurrence of that prompt.
C22_NoOccurrence ==
    crt.pc = "printed" =>
        \A k \in DOMAIN crt.prompts :
            /\ crt.printed[4 * k - 2] = Bold(crt.prompts[k])
            /\ Response(k) = strip(replace(Generated(k), crt.prompts[k]))
            /\ Occurrences(Response(k), crt.prompts[k]) = {}

\* C22 amended: the k-th turn prints the k-th prompt and, as its response, the k-th
\* generated text with copies of the prompt cut out and the whitespace at the
\* ends removed: the leading copy is cut, the copies cut do not overlap, and no
\* copy of the prompt that stood in the generated text is left whole. The printed
\* text may still hold the prompt where a cut joined its two parts.
C22_CopiesCut ==
    crt.pc = "printed" =>
        /\ Len(crt.printed) = 4 * Len(crt.prompts)
        /\ \A k \in DOMAIN crt.prompts :
              /\ crt.printed[4 * k - 2] = Bold(crt.prompts[k])
              /\ \E C \in SUBSET Occurrences(Generated(k), crt.prompts[k]) :
                    /\ CutsAll(C, Generated(k), crt.prompts[k])
                    /\ Response(k) =
                          strip(Without(Generated(k), Covered(C, crt.prompts[k]), 1))

\* two different prompts were printed, the model repeated the second prompt in its
\* answer, and the response printed for it still holds the prompt
C22_Witness ==
    /\ crt.pc = "printed"
    /\ Len(crt.prompts) = 2
    /\ crt.prompts[1] # crt.prompts[2]
    /\ Generated(1) # Generated(2)
    /\ Cardinality(Occurrences(Generated(2), crt.prompts[2])) > 1
    /\ Occurrences(Response(2), crt.prompts[2]) # {}

====
